---- MODULE Spec2Model ----
(***************************************************************************)
(* A model of VaccinationDataETL (src/covid19_vacc.py): the pipeline       *)
(* object with its two fields raw_data and processed_data, the three       *)
(* stages extract, transform and load, the orchestrator run_etl_pipeline,  *)
(* and the two external collaborators the stages talk to: the HTTP server  *)
(* behind self.url and the SQLite file behind db_path.                     *)
(*                                                                         *)
(* Values.  A cell of a DataFrame is a record [k, s, n]:                   *)
(*   k = "nan"  a missing value (NaN / NaT / None)                         *)
(*   k = "str"  a text value s                                             *)
(*   k = "num"  a finite number n                                          *)
(*   k = "inf"  the float +inf (a positive number divided by zero)         *)
(*   k = "date" a parsed calendar date, n = yyyymmdd                       *)
(* vaccination_rate is a percentage with two decimals; its cell holds the  *)
(* number of hundredths (5.00 % is n = 500), in exact arithmetic.          *)
(* A DataFrame is [present, cols, rows]; a row is [idx, cells], idx the    *)
(* pandas index label, cells a function from the column names.  None is    *)
(* the DataFrame with present = FALSE.                                     *)
(***************************************************************************)
EXTENDS Integers, Sequences, FiniteSets, TLC

VARIABLES
    raw_data,        \* self.raw_data
    processed_data,  \* self.processed_data
    db,              \* the SQLite file at db_path: [table, indexes]
    conn,            \* the connection of the last load: "none", "open", "closed"
    pc,              \* position inside run_etl_pipeline, "idle" outside it
    call,            \* the top-level call in progress or last finished
    result,          \* what that call handed back: "none", "True", "False", "raised"
    trace,           \* the stages that call has invoked, in order
    stageRes,        \* what each stage of that call returned
    console,         \* the messages that call has printed, in order
    http,            \* the requests of the last extract: [gets, checked]
    loadInfo,        \* the last load: [fault, dbBefore, afterLoadOk]
    dbWrites,        \* table writes started on the store during that call
    lastStage,       \* the last stage that ran on the instance, and its result
    nCalls           \* top-level calls made so far

vars == <<raw_data, processed_data, db, conn, pc, call, result, trace, stageRes,
          console, http, loadInfo, dbWrites, lastStage, nCalls>>

\* ------------------------------------------------------------------ bounds

\* Top-level calls a caller makes on one pipeline instance.
MaxCalls == 3

\* Rows of a fetched table in the specification of transform alone.
MaxRows == 2

\* ------------------------------------------------------------------ cells

Nan == [k |-> "nan", s |-> "", n |-> 0]

Inf == [k |-> "inf", s |-> "", n |-> 0]

Str(t) == [k |-> "str", s |-> t, n |-> 0]

Num(i) == [k |-> "num", s |-> "", n |-> i]

Date(d) == [k |-> "date", s |-> "", n |-> d]

None == [present |-> FALSE, cols |-> {}, rows |-> <<>>]

DataFrame(cols, rows) == [present |-> TRUE, cols |-> cols, rows |-> rows]

Range(f) == {f[i] : i \in DOMAIN f}

\* ------------------------------------------------------------------ CSV text

\* The five columns transform selects, in the order of the selection.
RequiredColumns ==
    <<"location", "date", "people_vaccinated", "people_fully_vaccinated", "population">>

\* The columns fillna fills with 0.
FilledColumns == {"people_vaccinated", "people_fully_vaccinated", "vaccination_rate"}

\* The numerals that occur in the modelled CSV bodies, with their values.
NumText ==
    [t \in {"0", "1", "3", "32", "50", "100", "500", "1000"} |->
        CASE t = "0" -> 0 [] t = "1" -> 1 [] t = "3" -> 3 [] t = "32" -> 32
          [] t = "50" -> 50 [] t = "100" -> 100 [] t = "500" -> 500 [] t = "1000" -> 1000]

\* The date texts to_datetime can parse, with the date they denote.
DateText ==
    [t \in {"2021-01-01", "2021-01-02"} |->
        CASE t = "2021-01-01" -> 20210101 [] t = "2021-01-02" -> 20210102]

\* pd.read_csv on one field: an empty field is NaN, a numeral a number, the rest text.
ParseCell(t) ==
    IF t = "" THEN Nan
    ELSE IF t \in DOMAIN NumText THEN Num(NumText[t])
    ELSE Str(t)

\* pd.read_csv on a body [header, lines]: a header row, then one row per line, with a
\* RangeIndex 0, 1, ... as index.
ParseCsv(body) ==
    DataFrame(Range(body.header),
              [i \in 1..Len(body.lines) |->
                  [idx |-> i - 1,
                   cells |-> [c \in Range(body.header) |->
                       ParseCell(body.lines[i][CHOOSE j \in DOMAIN body.header :
                                                   body.header[j] = c])]]])

\* ------------------------------------------------------------------ transform

\* raw_data[[...]] raises KeyError when a selected column is absent.
MissingColumns(df) == Range(RequiredColumns) \ df.cols

\* raw_data[['location', 'date', ...]].copy()
SelectColumns(df) ==
    DataFrame(Range(RequiredColumns),
              [i \in DOMAIN df.rows |->
                  [idx |-> df.rows[i].idx,
                   cells |-> [c \in Range(RequiredColumns) |-> df.rows[i].cells[c]]]])

\* pd.to_datetime raises on the whole column when one value cannot be parsed.
Unparseable(c) == c.k = "str" /\ c.s \notin DOMAIN DateText

DateParseRaises(df) == \E i \in DOMAIN df.rows : Unparseable(df.rows[i].cells["date"])

ToDatetimeCell(c) == IF c.k = "str" THEN Date(DateText[c.s]) ELSE c

\* processed_data['date'] = pd.to_datetime(processed_data['date'])
ToDatetime(df) ==
    [df EXCEPT !.rows = [i \in DOMAIN df.rows |->
        [df.rows[i] EXCEPT !.cells["date"] = ToDatetimeCell(@)]]]

\* A rounding that sends a tie up instead of to the even hundredth.
RoundHalfUp(num, den) ==
    LET q == (num * 10000) \div den
        r == (num * 10000) % den
    IN  IF 2 * r >= den THEN q + 1 ELSE q

\* Series.round(2) on num / den * 100, as an integer number of hundredths:
\* the nearest hundredth, a tie going to the even one.
Round2(num, den) ==
    LET q == (num * 10000) \div den
        r == (num * 10000) % den
    IN  IF 2 * r > den THEN q + 1
        ELSE IF 2 * r < den THEN q
        ELSE IF q % 2 = 0 THEN q ELSE q + 1

\* (people_fully_vaccinated / population * 100).round(2), element-wise: a missing
\* operand gives NaN, 0 / 0 gives NaN, a positive number over 0 gives inf.
RateOf(pfv, pop) ==
    IF pfv.k # "num" \/ pop.k # "num" THEN Nan
    ELSE IF pop.n = 0 THEN (IF pfv.n = 0 THEN Nan ELSE Inf)
    ELSE Num(Round2(pfv.n, pop.n))

\* processed_data['vaccination_rate'] = ...
WithRate(df) ==
    DataFrame(df.cols \cup {"vaccination_rate"},
              [i \in DOMAIN df.rows |->
                  [idx |-> df.rows[i].idx,
                   cells |-> [c \in df.cols \cup {"vaccination_rate"} |->
                       IF c = "vaccination_rate"
                       THEN RateOf(df.rows[i].cells["people_fully_vaccinated"],
                                   df.rows[i].cells["population"])
                       ELSE df.rows[i].cells[c]]]])

FillCell(c) == IF c.k = "nan" THEN Num(0) ELSE c

\* A fillna that leaves vaccination_rate out.
FillnaCountsOnly(df) ==
    [df EXCEPT !.rows = [i \in DOMAIN df.rows |->
        [df.rows[i] EXCEPT !.cells = [c \in DOMAIN @ |->
            IF c \in {"people_vaccinated", "people_fully_vaccinated"}
            THEN FillCell(@[c]) ELSE @[c]]]]]

\* processed_data.fillna({...: 0}, inplace=True)
Fillna(df) ==
    [df EXCEPT !.rows = [i \in DOMAIN df.rows |->
        [df.rows[i] EXCEPT !.cells = [c \in DOMAIN @ |->
            IF c \in FilledColumns THEN FillCell(@[c]) ELSE @[c]]]]]

HasLocation(row) == row.cells["location"].k # "nan"

\* processed_data.dropna(subset=['location'], inplace=True): the rows kept hold
\* their index labels.
Dropna(df) == [df EXCEPT !.rows = SelectSeq(@, HasLocation)]

\* The table a transform that runs to its end leaves in processed_data.
Transformed(raw) == Dropna(Fillna(WithRate(ToDatetime(SelectColumns(raw)))))

\* transform(): what it returns ("raised" when an exception leaves it), the
\* processed_data it leaves behind and what it prints.
TransformResult(raw, processed) ==
    IF ~raw.present
    THEN [res |-> "False", processed |-> processed, out |-> <<"no_data">>]
    ELSE IF MissingColumns(raw) # {}
    THEN [res |-> "False", processed |-> processed,
          out |-> <<"columns", "missing_column", "check_column">>]
    ELSE IF DateParseRaises(SelectColumns(raw))
    THEN [res |-> "raised", processed |-> SelectColumns(raw), out |-> <<"columns">>]
    ELSE [res |-> "True", processed |-> Transformed(raw),
          out |-> <<"columns", "transformed">>]

\* ------------------------------------------------------------------ extract

\* A body without a header row: pd.read_csv raises EmptyDataError on it.
EmptyBody == [header |-> <<>>, lines |-> <<>>]

OneDate == "2021-01-01"

\* The bodies the server behind self.url may answer with.
ServerBodies ==
    { [header |-> RequiredColumns,
       lines  |-> << <<"USA", OneDate, "100", "50", "1000">>,
                     <<"FRA", OneDate, "", "", "500">> >>],
      [header |-> <<"location", "date", "people_vaccinated", "people_fully_vaccinated">>,
       lines  |-> << <<"USA", OneDate, "100", "50">> >>],
      [header |-> RequiredColumns,
       lines  |-> << <<"USA", "not-a-date", "100", "50", "1000">> >>],
      [header |-> <<"location", "iso_code">> \o Tail(RequiredColumns),
       lines  |-> << <<"", "OWID", OneDate, "100", "50", "1000">>,
                     <<"USA", "USA", "2021-01-02", "", "1", "0">> >>],
      EmptyBody }

\* What one HTTP GET can come back with: a success status and a body, or a
\* non-success status (a request that gets no response at all raises as well, and
\* takes the same path).
ErrorResponse == [status |-> "http_error", body |-> EmptyBody]

Responses == {[status |-> "ok", body |-> b] : b \in ServerBodies} \cup {ErrorResponse}

\* The responses to the requests of one extract: the second request is made only
\* after the first response passed raise_for_status.
Exchanges ==
    {<<r1, r2>> \in Responses \X Responses : r1.status # "ok" => r2 = ErrorResponse}

\* extract(): requests.get and raise_for_status on a first response r1, then
\* pd.read_csv(self.url), which fetches the URL again and parses that second
\* response r2.  Any exception is caught, printed, and False returned.
ExtractResult(r1, r2, raw) ==
    IF r1.status # "ok"
    THEN [res |-> "False", raw |-> raw, gets |-> 1, out |-> <<"extract_error">>]
    ELSE IF r2.status # "ok" \/ r2.body.header = <<>>
    THEN [res |-> "False", raw |-> raw, gets |-> 2, out |-> <<"extract_error">>]
    ELSE [res |-> "True", raw |-> ParseCsv(r2.body), gets |-> 2, out |-> <<"extracted">>]

\* ------------------------------------------------------------------ load

NoTable == [present |-> FALSE, cols |-> {}, rows |-> <<>>]

EmptyDb == [table |-> NoTable, indexes |-> {}]

\* CREATE INDEX idx_location_date ON vaccination_data (location, date)
LocationDateIndex == [name |-> "idx_location_date", on |-> <<"location", "date">>]

\* to_sql(..., index=False): the rows without their index labels.
SqlRows(df) == [i \in DOMAIN df.rows |-> df.rows[i].cells]

\* to_sql with if_exists='append': the rows are added to the table that is there,
\* which keeps its indexes.
ToSqlAppend(d, df) ==
    [table |-> [present |-> TRUE, cols |-> df.cols, rows |-> d.table.rows \o SqlRows(df)],
     indexes |-> d.indexes]

\* to_sql('vaccination_data', conn, if_exists='replace', index=False): the table
\* is dropped, and its indexes with it, then created again from the DataFrame.
ToSql(d, df) ==
    [table |-> [present |-> TRUE, cols |-> df.cols, rows |-> SqlRows(df)],
     indexes |-> {}]

\* A to_sql that fails after the drop, with the first k rows written.
ToSqlPartial(d, df, k) ==
    [table |-> [present |-> TRUE, cols |-> df.cols, rows |-> SubSeq(SqlRows(df), 1, k)],
     indexes |-> {}]

\* CREATE INDEX without IF NOT EXISTS fails when an index of that name exists.
IndexExists(d) == \E ix \in d.indexes : ix.name = LocationDateIndex.name

CreateIndex(d) == [d EXCEPT !.indexes = @ \cup {LocationDateIndex}]

\* A close that is never made.
CloseSkipped(c) == c

\* conn.close()
Close(c) == "closed"

\* The connection after an exception skipped conn.close(): load holds no other
\* reference to it, so whether it is still open when load returns is up to the
\* runtime (finalized says it released the object on the way out).
Abandoned(c, finalized) == IF finalized THEN "closed" ELSE c

\* Where a failing table write can stop: -1 before the old table is dropped,
\* k >= 0 after k rows of the new table.
WriteStops(df) == -1 .. (Len(df.rows) - 1)

\* How one load can go: the fault that strikes, where a failing write stops, and
\* whether the runtime finalizes a connection that load abandons.
LoadCourses(df) ==
    {[fault |-> f, k |-> -1, finalized |-> FALSE] : f \in {"none", "connect"}}
        \cup (IF df.present
              THEN {[fault |-> "index", k |-> -1, finalized |-> g] : g \in BOOLEAN}
                     \cup {[fault |-> "write", k |-> k, finalized |-> g] :
                               k \in WriteStops(df), g \in BOOLEAN}
              ELSE {})

\* A load that takes the table write back when a later step fails.
LoadResultUndo(processed, d, fault, k, finalized) ==
    IF ~processed.present
    THEN [res |-> "False", db |-> d, conn |-> "none", writes |-> 0,
          out |-> <<"no_processed">>]
    ELSE IF fault = "none"
    THEN [res |-> "True", db |-> CreateIndex(ToSql(d, processed)),
          conn |-> "closed", writes |-> 1, out |-> <<"loaded">>]
    ELSE [res |-> "False", db |-> d, conn |-> IF fault = "connect" THEN "none" ELSE "closed",
          writes |-> 0, out |-> <<"load_error">>]

\* load(): what it returns, the store and the connection it leaves, how many
\* table writes it started, and what it prints.
LoadResult(processed, d, fault, k, finalized) ==
    IF ~processed.present
    THEN [res |-> "False", db |-> d, conn |-> "none", writes |-> 0,
          out |-> <<"no_processed">>]
    ELSE IF fault = "connect"
    THEN [res |-> "False", db |-> d, conn |-> "none", writes |-> 0,
          out |-> <<"load_error">>]
    ELSE IF fault = "write"
    THEN [res |-> "False",
          db |-> IF k < 0 THEN d ELSE ToSqlPartial(d, processed, k),
          conn |-> Abandoned("open", finalized),
          writes |-> IF k < 0 THEN 0 ELSE 1,
          out |-> <<"load_error">>]
    ELSE IF fault = "index" \/ IndexExists(ToSql(d, processed))
    THEN [res |-> "False", db |-> ToSql(d, processed),
          conn |-> Abandoned("open", finalized), writes |-> 1,
          out |-> <<"load_error">>]
    ELSE [res |-> "True", db |-> CreateIndex(ToSql(d, processed)),
          conn |-> Close("open"), writes |-> 1, out |-> <<"loaded">>]

\* ------------------------------------------------------------------ run_etl_pipeline

NoStage == [extract |-> "none", transform |-> "none", load |-> "none"]

\* A run that goes on to transform whatever extract returned.
AlwaysTransform(res) == "transform"

\* extract_success = self.extract(); if not extract_success: return False
AfterExtract(res) == IF res = "True" THEN "transform" ELSE "idle"

\* transform_success = self.transform(); if not transform_success: return False
AfterTransform(res) == IF res = "True" THEN "load" ELSE "idle"

\* A duration report made only after a load that succeeded.
CompletedOnSuccess(res) == IF res = "True" THEN <<"completed_in">> ELSE <<>>

\* end_time = datetime.now(); print(f"ETL Pipeline completed in ...")
Completed(res) == <<"completed_in">>

\* ------------------------------------------------------------------ state

\* __init__, with no store at db_path yet.
Init ==
    /\ raw_data = None
    /\ processed_data = None
    /\ db = EmptyDb
    /\ conn = "none"
    /\ pc = "idle"
    /\ call = "none"
    /\ result = "none"
    /\ trace = <<>>
    /\ stageRes = NoStage
    /\ console = <<>>
    /\ http = [gets |-> 0, checked |-> EmptyBody]
    /\ loadInfo = [fault |-> "none", dbBefore |-> EmptyDb, afterLoadOk |-> FALSE]
    /\ dbWrites = 0
    /\ lastStage = [stage |-> "none", res |-> "none"]
    /\ nCalls = 0

CanCall == pc = "idle" /\ nCalls < MaxCalls

\* The effect of extract() on the instance and the server's log.
DoExtract(x, r1) ==
    /\ raw_data' = x.raw
    /\ http' = [gets |-> x.gets, checked |-> r1.body]
    /\ lastStage' = [stage |-> "extract", res |-> x.res]
    /\ UNCHANGED <<processed_data, db, conn, loadInfo>>

\* The effect of transform() on the instance.
DoTransform(x) ==
    /\ processed_data' = x.processed
    /\ lastStage' = [stage |-> "transform", res |-> x.res]
    /\ UNCHANGED <<raw_data, db, conn, http, loadInfo>>

\* The effect of load() on the store.
DoLoad(x, fault) ==
    /\ db' = x.db
    /\ conn' = x.conn
    /\ loadInfo' = [fault |-> fault, dbBefore |-> db,
                    afterLoadOk |-> (lastStage = [stage |-> "load", res |-> "True"])]
    /\ lastStage' = [stage |-> "load", res |-> x.res]
    /\ UNCHANGED <<raw_data, processed_data, http>>

\* A caller's own call of one stage: it starts and ends in one step.
Direct(stage, x) ==
    /\ CanCall
    /\ nCalls' = nCalls + 1
    /\ call' = stage
    /\ trace' = <<stage>>
    /\ stageRes' = [NoStage EXCEPT ![stage] = x.res]
    /\ result' = x.res
    /\ console' = x.out
    /\ dbWrites' = (IF stage = "load" THEN x.writes ELSE 0)
    /\ pc' = "idle"

extract ==
    \E e \in Exchanges :
        LET x == ExtractResult(e[1], e[2], raw_data)
        IN  Direct("extract", x) /\ DoExtract(x, e[1])

transform ==
    LET x == TransformResult(raw_data, processed_data)
    IN  Direct("transform", x) /\ DoTransform(x)

load ==
    \E c \in LoadCourses(processed_data) :
        LET x == LoadResult(processed_data, db, c.fault, c.k, c.finalized)
        IN  Direct("load", x) /\ DoLoad(x, c.fault)

\* print("Starting ..."); start_time = datetime.now()
run_etl_pipeline ==
    /\ CanCall
    /\ nCalls' = nCalls + 1
    /\ call' = "run_etl_pipeline"
    /\ pc' = "extract"
    /\ trace' = <<>>
    /\ stageRes' = NoStage
    /\ result' = "none"
    /\ console' = <<"starting">>
    /\ dbWrites' = 0
    /\ UNCHANGED <<raw_data, processed_data, db, conn, http, loadInfo, lastStage>>

\* One stage of the run: it is invoked, and the run goes on at `next` or, with
\* next = "idle", returns (False after a stage's False, by the exception after a
\* stage raised).
Staged(stage, x, next, epilogue) ==
    /\ trace' = Append(trace, stage)
    /\ stageRes' = [stageRes EXCEPT ![stage] = x.res]
    /\ console' = console \o x.out \o epilogue
    /\ dbWrites' = dbWrites + (IF stage = "load" THEN x.writes ELSE 0)
    /\ pc' = next
    /\ result' = IF next # "idle" THEN "none"
                 ELSE IF x.res = "raised" THEN "raised"
                 ELSE IF stage = "load" THEN x.res
                 ELSE "False"
    /\ UNCHANGED <<call, nCalls>>

run_extract ==
    /\ pc = "extract"
    /\ \E e \in Exchanges :
        LET x == ExtractResult(e[1], e[2], raw_data)
        IN  Staged("extract", x, AfterExtract(x.res), <<>>) /\ DoExtract(x, e[1])

run_transform ==
    /\ pc = "transform"
    /\ LET x == TransformResult(raw_data, processed_data)
       IN  Staged("transform", x, AfterTransform(x.res), <<>>) /\ DoTransform(x)

\* load_success = self.load(); the duration report; return load_success
run_load ==
    /\ pc = "load"
    /\ \E c \in LoadCourses(processed_data) :
        LET x == LoadResult(processed_data, db, c.fault, c.k, c.finalized)
        IN  Staged("load", x, "idle", Completed(x.res)) /\ DoLoad(x, c.fault)

Next ==
    \/ extract
    \/ transform
    \/ load
    \/ run_etl_pipeline
    \/ run_extract
    \/ run_transform
    \/ run_load

Spec == Init /\ [][Next]_vars

\* ------------------------------------------------------------------ transform alone

LocationTexts == {"", "USA"}

CountTexts == {"", "100"}

\* people_fully_vaccinated and population of a line: each missing, zero over zero,
\* a number over zero, exact quotients, quotients that round down and up, and
\* ties (1/32 is 3.125 %, 3/32 is 9.375 %).
RatioTexts ==
    { <<"", "">>, <<"", "1000">>, <<"50", "">>, <<"0", "0">>, <<"1", "0">>,
      <<"0", "1000">>, <<"50", "1000">>, <<"1", "3">>, <<"50", "3">>,
      <<"1", "32">>, <<"3", "32">> }

\* The lines of a body with the five required columns.
Lines ==
    {<<l, OneDate, c, r[1], r[2]>> : l \in LocationTexts, c \in CountTexts, r \in RatioTexts}

\* The tables extract can have left in raw_data, up to MaxRows rows.
RawFrames ==
    {ParseCsv([header |-> RequiredColumns, lines |-> ls]) :
        ls \in UNION {[1..n -> Lines] : n \in 0..MaxRows}}

\* The instance as extract has left it, with one call to go: transform is a
\* function of raw_data alone, so one call on each table shows all it does.
InitTransform ==
    /\ raw_data \in RawFrames
    /\ processed_data = None
    /\ db = EmptyDb
    /\ conn = "none"
    /\ pc = "idle"
    /\ call = "extract"
    /\ result = "True"
    /\ trace = <<"extract">>
    /\ stageRes = [NoStage EXCEPT !.extract = "True"]
    /\ console = <<"extracted">>
    /\ http = [gets |-> 2, checked |-> EmptyBody]
    /\ loadInfo = [fault |-> "none", dbBefore |-> EmptyDb, afterLoadOk |-> FALSE]
    /\ dbWrites = 0
    /\ lastStage = [stage |-> "extract", res |-> "True"]
    /\ nCalls = MaxCalls - 1

NextTransform == transform

SpecTransform == InitTransform /\ [][NextTransform]_vars

\* ------------------------------------------------------------------ claims

RunReturned == call = "run_etl_pipeline" /\ pc = "idle"

StageOrder == <<"extract", "transform", "load">>

\* C1: within run_etl_pipeline the stages are invoked in the order extract,
\* transform, load, each at most once, and a stage only after every earlier one
\* returned True; after extract returns False the run has invoked nothing else and
\* returns False; after transform returns False the run has not invoked load, has
\* started no table write, and returns False.
C1_StagesInOrder ==
    call = "run_etl_pipeline" =>
        /\ \E n \in 0..3 : trace = SubSeq(StageOrder, 1, n)
        /\ "transform" \in Range(trace) => stageRes.extract = "True"
        /\ "load" \in Range(trace) =>
               stageRes.extract = "True" /\ stageRes.transform = "True"
        /\ stageRes.extract = "False" =>
               pc = "idle" /\ trace = <<"extract">> /\ result = "False"
        /\ stageRes.transform = "False" =>
               /\ pc = "idle" /\ trace = <<"extract", "transform">>
               /\ result = "False" /\ dbWrites = 0

\* A run that stopped at a transform that found a required column missing.
C1_Witness ==
    /\ RunReturned
    /\ stageRes.transform = "False"
    /\ "population" \notin raw_data.cols
    /\ result = "False"

\* C2: every run_etl_pipeline ends by returning a boolean, True exactly when the
\* three stages all succeeded, whatever failed.
C2_AlwaysBoolean ==
    RunReturned =>
        /\ result \in {"True", "False"}
        /\ result = "True" <=> \A st \in Range(StageOrder) : stageRes[st] = "True"

\* C3: the run reports its duration on every path on which it returns.
C3_DurationOnEveryPath == RunReturned => "completed_in" \in Range(console)

\* C3 as amended: the run reports its duration exactly when it invoked load,
\* whether load returned True or False, and as the last thing it prints; a run
\* that stops after extract or transform returns without the report.
C3_DurationIffLoadReached ==
    RunReturned =>
        /\ "completed_in" \in Range(console) <=> "load" \in Range(trace)
        /\ "load" \in Range(trace) => console[Len(console)] = "completed_in"

\* A run whose load failed and which reported its duration all the same.
C3_Witness ==
    /\ RunReturned
    /\ stageRes.load = "False"
    /\ result = "False"
    /\ console[Len(console)] = "completed_in"

LoadReturned == pc = "idle" /\ lastStage.stage = "load"

\* C4: a load that opened a connection has closed it when it returns, with
\* success or with failure.
C4_AlwaysClosed == LoadReturned /\ conn # "none" => conn = "closed"

\* C4 as amended: a load that returns True has closed its connection; a
\* connection still open when load returns is one of a load that returned False
\* after an error in the table write or in the index creation.
C4_ClosedOnSuccess ==
    LoadReturned =>
        /\ lastStage.res = "True" => conn = "closed"
        /\ conn = "open" =>
               lastStage.res = "False" /\ loadInfo.fault \in {"write", "index"}

\* A load that returned True, its connection closed.
C4_Witness == LoadReturned /\ lastStage.res = "True" /\ conn = "closed" /\ dbWrites = 1

\* C5: a load that follows a successful load of the same processed_data, and
\* meets no fault of the store, succeeds too and leaves the store as the first
\* left it: the same rows, as many as processed_data has, and the one
\* (location, date) index.
C5_LoadIdempotent ==
    lastStage.stage = "load" /\ loadInfo.afterLoadOk /\ loadInfo.fault = "none" =>
        /\ lastStage.res = "True"
        /\ db = loadInfo.dbBefore
        /\ Len(db.table.rows) = Len(processed_data.rows)
        /\ db.indexes = {LocationDateIndex}

\* A second load in succession, on a table with rows.
C5_Witness ==
    /\ lastStage = [stage |-> "load", res |-> "True"]
    /\ loadInfo.afterLoadOk
    /\ loadInfo.fault = "none"
    /\ Len(db.table.rows) = 2
    /\ IndexExists(loadInfo.dbBefore)

\* C6: a successful extract has issued one GET, and raw_data is the parse of the
\* body of the response whose status it checked.
C6_ParsesCheckedResponse ==
    lastStage = [stage |-> "extract", res |-> "True"] =>
        http.gets = 1 /\ raw_data = ParseCsv(http.checked)

TransformSucceeded == lastStage = [stage |-> "transform", res |-> "True"]

\* The row of raw_data a row of processed_data comes from.
Source(row) == raw_data.rows[row.idx + 1].cells

\* C7: after a transform that returns True no row of processed_data has a missing
\* people_vaccinated, people_fully_vaccinated or vaccination_rate: a count missing
\* in the source is 0, and so is the rate of a row whose people_fully_vaccinated
\* or population is missing in the source.
C7_NeverNull ==
    TransformSucceeded =>
        \A i \in DOMAIN processed_data.rows :
            LET row == processed_data.rows[i]
            IN  /\ \A c \in FilledColumns : row.cells[c].k # "nan"
                /\ \A c \in {"people_vaccinated", "people_fully_vaccinated"} :
                       Source(row)[c].k = "nan" => row.cells[c] = Num(0)
                /\ (Source(row)["people_fully_vaccinated"].k = "nan"
                        \/ Source(row)["population"].k = "nan")
                       => row.cells["vaccination_rate"] = Num(0)

\* A transformed row whose population is missing in the source, its rate 0, and
\* one whose counts are both missing in the source.
C7_Witness ==
    /\ TransformSucceeded
    /\ \E i \in DOMAIN processed_data.rows :
           /\ Source(processed_data.rows[i])["population"].k = "nan"
           /\ Source(processed_data.rows[i])["people_fully_vaccinated"].k = "num"
           /\ processed_data.rows[i].cells["vaccination_rate"] = Num(0)
    /\ \E i \in DOMAIN processed_data.rows :
           /\ Source(processed_data.rows[i])["people_vaccinated"].k = "nan"
           /\ Source(processed_data.rows[i])["people_fully_vaccinated"].k = "nan"

Abs(i) == IF i < 0 THEN -i ELSE i

\* C8: in every row of processed_data whose population is positive and whose
\* people_fully_vaccinated is present in the source, vaccination_rate is
\* people_fully_vaccinated / population * 100 rounded to two decimals: a number
\* of hundredths no further than half a hundredth from the quotient, the even
\* one of the two at a tie; the fill and the row filter leave it so.
C8_RateIsRoundedQuotient ==
    TransformSucceeded =>
        \A i \in DOMAIN processed_data.rows :
            LET row  == processed_data.rows[i]
                pfv  == Source(row)["people_fully_vaccinated"]
                pop  == Source(row)["population"]
                rate == row.cells["vaccination_rate"]
                off  == Abs(rate.n * pop.n - pfv.n * 10000)
            IN  pfv.k = "num" /\ pop.k = "num" /\ pop.n > 0 =>
                    /\ rate.k = "num"
                    /\ row.cells["people_fully_vaccinated"] = pfv
                    /\ 2 * off <= pop.n
                    /\ 2 * off = pop.n => rate.n % 2 = 0

\* Behind a dropped row, a row at a tie: 1/32 is 3.125 %, rounded to 3.12.
C8_Witness ==
    /\ TransformSucceeded
    /\ Len(raw_data.rows) = 2
    /\ Len(processed_data.rows) = 1
    /\ processed_data.rows[1].idx = 1
    /\ Source(processed_data.rows[1])["people_fully_vaccinated"] = Num(1)
    /\ Source(processed_data.rows[1])["population"] = Num(32)
    /\ processed_data.rows[1].cells["vaccination_rate"] = Num(312)
    /\ \E i \in DOMAIN raw_data.rows : raw_data.rows[i].cells["location"].k = "nan"

\* C9: a load that returns False because the index creation failed leaves the
\* table it wrote in the store, the rows of processed_data, and no index on it.
C9_WriteNotUndone ==
    LoadReturned /\ lastStage.res = "False" /\ loadInfo.fault = "index"
            /\ processed_data.present =>
        /\ db.table.present
        /\ db.table.cols = processed_data.cols
        /\ db.table.rows = SqlRows(processed_data)
        /\ db.indexes = {}

\* Such a load on a store that held another table and its index before.
C9_Witness ==
    /\ LoadReturned /\ lastStage.res = "False" /\ loadInfo.fault = "index"
    /\ IndexExists(loadInfo.dbBefore)
    /\ loadInfo.dbBefore.table # db.table
    /\ Len(db.table.rows) > 0
    /\ db.indexes = {}

\* A fully transformed table: the rate column is there, the three numeric
\* fields are filled, no row is without location.
FullyTransformed(cols, rows) ==
    /\ "vaccination_rate" \in cols
    /\ \A i \in DOMAIN rows :
           /\ \A c \in FilledColumns : rows[i][c].k # "nan"
           /\ rows[i]["location"].k # "nan"
           /\ rows[i]["date"].k # "str"

\* C10: processed_data is absent or the complete output of a transform, and the
\* table in the store is a fully transformed one.
C10_ProcessedIsComplete ==
    /\ processed_data.present =>
           FullyTransformed(processed_data.cols, SqlRows(processed_data))
    /\ db.table.present => FullyTransformed(db.table.cols, db.table.rows)

====
